---- MODULE Spec2Model ----
(***************************************************************************)
(* Definition builders for WebIDL and TypeScript (src/definitions.ts).     *)
(*                                                                         *)
(* One run of the model is one call of IDLBuilder.build(program) or        *)
(* TSDBuilder.build(program) on a fresh builder.  The recursion of the     *)
(* walker (walk -> visitElement -> visitX -> visitElement ...) is kept on  *)
(* an explicit call stack; every method of the two builders is one action. *)
(*                                                                         *)
(* The text accumulator sb is the array of fragments exactly as the code   *)
(* pushes them.  A fragment is a record [s, n, e]: s is the pushed string, *)
(* e is the element whose simpleName (or member key) the string is (0 for  *)
(* fixed text), and a call indent(sb, level) is kept as one fragment with  *)
(* s = "<indent>" and n = level.                                           *)
(***************************************************************************)
EXTENDS Integers, Sequences, FiniteSets, TLC

VARIABLES
    program,      \* the export graph: [exports, elements, isWasm64]
    builder,      \* "IDL" (IDLBuilder) or "TSD" (TSDBuilder)
    sb,           \* this.sb
    seen,         \* this.seen
    indentLevel,  \* this.indentLevel
    stack,        \* call stack of the walker, top at the end
    status,       \* "new", "running", "done" (build returned), "fatal" (assert)
    calls         \* history: the method calls made so far, in order

vars == <<program, builder, sb, seen, indentLevel, stack, status, calls>>

----------------------------------------------------------------------------
(* Bounds of the explored export graphs.                                   *)

MaxRoots == 3

MaxMembers == 2

MaxInstances == 2

MaxParams == 2

----------------------------------------------------------------------------
(* Element and type kinds.                                                 *)

ElementKinds ==
    {"GLOBAL", "ENUM", "ENUMVALUE", "FUNCTION_PROTOTYPE", "FUNCTION",
     "CLASS_PROTOTYPE", "CLASS", "INTERFACE", "NAMESPACE"}

SupportedTypeKinds ==
    {"I8", "I16", "I32", "I64", "ISIZE", "U8", "U16", "U32", "U64", "USIZE",
     "BOOL", "F32", "F64", "VOID"}

\* "OTHER" stands for any TypeKind the switch of typeToString does not list.
TypeKinds == SupportedTypeKinds \cup {"OTHER"}

\* What a failed assert(false) leaves in place of a value.
AssertFailed == "<assert>"

----------------------------------------------------------------------------
(* Fragments of the text accumulator.                                      *)

Text(s) == [s |-> s, n |-> 0, e |-> 0]

Indent(level) == [s |-> "<indent>", n |-> level, e |-> 0]

Elements == program.elements

El(e) == Elements[e]

\* sb.push(element.simpleName)
SimpleName(e) == [s |-> El(e).name, n |-> 0, e |-> e]

\* Lines 167 and 339: sb.push(name), the key under which an Enum holds
\* member m.
Key(name, m) == [s |-> name, n |-> 0, e |-> m]

Digits == <<"0", "1", "2", "3", "4", "5", "6", "7", "8", "9">>

RECURSIVE NatToString(_)
NatToString(v) ==
    IF v < 10 THEN Digits[v + 1]
    ELSE NatToString(v \div 10) \o Digits[(v % 10) + 1]

\* i64_to_string(value), value.toString(10): signed decimal.
i64_to_string(v) == IF v < 0 THEN "-" \o NatToString(-v) ELSE NatToString(v)

\* constantFloatValue.toString() for the integral doubles of the model.
FloatToString(v) == i64_to_string(v)

----------------------------------------------------------------------------
(* Primitive type names.                                                   *)

\* A table in which the pointer-sized kinds are always 32 bits wide.
IDLBuilder_typeToString_Fixed32(kind) ==
    CASE kind = "I8" -> "byte"
      [] kind = "I16" -> "short"
      [] kind \in {"I32", "ISIZE"} -> "long"
      [] kind = "I64" -> "long long"
      [] kind = "U8" -> "octet"
      [] kind = "U16" -> "unsigned short"
      [] kind \in {"U32", "USIZE"} -> "unsigned long"
      [] kind = "U64" -> "unsigned long long"
      [] kind = "BOOL" -> "boolean"
      [] kind = "F32" -> "unrestricted float"
      [] kind = "F64" -> "unrestricted double"
      [] kind = "VOID" -> "void"
      [] OTHER -> AssertFailed

\* Lines 255-278.
IDLBuilder_typeToString(kind) ==
    CASE kind = "I8" -> "byte"
      [] kind = "I16" -> "short"
      [] kind = "I32" -> "long"
      [] kind = "I64" -> "long long"
      [] kind = "ISIZE" -> IF program.isWasm64 THEN "long long" ELSE "long"
      [] kind = "U8" -> "octet"
      [] kind = "U16" -> "unsigned short"
      [] kind = "U32" -> "unsigned long"
      [] kind = "U64" -> "unsigned long long"
      [] kind = "USIZE" -> IF program.isWasm64 THEN "unsigned long long"
                           ELSE "unsigned long"
      [] kind = "BOOL" -> "boolean"
      [] kind = "F32" -> "unrestricted float"
      [] kind = "F64" -> "unrestricted double"
      [] kind = "VOID" -> "void"
      [] OTHER -> AssertFailed

TSDBuilder_typeToString(kind) ==
    CASE kind = "I8" -> "i8"
      [] kind = "I16" -> "i16"
      [] kind = "I32" -> "i32"
      [] kind = "I64" -> "I64"
      [] kind = "ISIZE" -> IF program.isWasm64 THEN "I64" ELSE "i32"
      [] kind = "U8" -> "u8"
      [] kind = "U16" -> "u16"
      [] kind = "U32" -> "u32"
      [] kind = "U64" -> "U64"
      [] kind = "USIZE" -> IF program.isWasm64 THEN "U64" ELSE "u32"
      [] kind = "BOOL" -> "bool"
      [] kind = "F32" -> "f32"
      [] kind = "F64" -> "f64"
      [] kind = "VOID" -> "void"
      [] OTHER -> AssertFailed

----------------------------------------------------------------------------
(* Fragment lists.  An assert(false) is kept as a fragment AssertFailed at  *)
(* the place it fires: the fragments before it were pushed, none after it. *)

HasAssert(frags) == \E k \in 1..Len(frags) : frags[k].s = AssertFailed

BeforeAssert(frags) ==
    LET first == CHOOSE k \in 1..Len(frags) :
                     /\ frags[k].s = AssertFailed
                     /\ \A j \in 1..(k - 1) : frags[j].s # AssertFailed
    IN  SubSeq(frags, 1, first - 1)

RECURSIVE Concat(_)
Concat(seqs) == IF seqs = <<>> THEN <<>> ELSE Head(seqs) \o Concat(Tail(seqs))

\* A test of the Inlined flag that is true of every element with a constant.
IsConst_ByConstantKind(e) == El(e).constantValueKind # "NONE"

\* element.is(CommonFlags.INLINED) of a Global or an EnumValue.
IsConst(e) == El(e).inlined

\* Lines 122-144: the text of one Global in WebIDL.
IDLGlobalText(e, level) ==
    <<Indent(level)>>
    \o (IF IsConst(e) THEN <<Text("const ")>> ELSE <<>>)
    \o <<Text(IDLBuilder_typeToString(El(e).type)), Text(" "), SimpleName(e)>>
    \o (IF IsConst(e)
        THEN CASE El(e).constantValueKind = "INTEGER" ->
                    <<Text(" = "), Text(i64_to_string(El(e).constantValue))>>
               [] El(e).constantValueKind = "FLOAT" ->
                    <<Text(" = "), Text(FloatToString(El(e).constantValue))>>
               [] OTHER -> <<Text(AssertFailed)>>
        ELSE <<>>)
    \o <<Text(";\n")>>

\* Lines 313-320: the text of one Global in TypeScript.
TSDGlobalText(e, level) ==
    <<Indent(level)>>
    \o (IF IsConst(e) THEN <<Text("const ")>> ELSE <<>>)
    \o <<SimpleName(e), Text(": "),
         Text(TSDBuilder_typeToString(El(e).type)), Text(";\n")>>

\* Lines 158-173: one EnumValue member of an Enum in WebIDL.
IDLEnumValueText(name, m, level) ==
    IF El(m).kind = "ENUMVALUE"
    THEN <<Indent(level)>>
         \o (IF IsConst(m) THEN <<Text("const ")>> ELSE <<Text("readonly ")>>)
         \o <<Text("unsigned long "), Key(name, m)>>
         \o (IF IsConst(m)
             THEN <<Text(" = "), Text(i64_to_string(El(m).constantValue))>>
             ELSE <<>>)
         \o <<Text(";\n")>>
    ELSE <<>>

\* Lines 336-346: one EnumValue member of an Enum in TypeScript.
TSDEnumValueText(name, m, level) ==
    IF El(m).kind = "ENUMVALUE"
    THEN <<Indent(level), Key(name, m)>>
         \o (IF IsConst(m)
             THEN <<Text(" = "), Text(i64_to_string(El(m).constantValue))>>
             ELSE <<>>)
         \o <<Text(",\n")>>
    ELSE <<>>

\* signature.getParameterName(i)
ParameterNames == <<"a", "b", "c">>

\* Lines 198-204: the parameter list of a Function in WebIDL.
IDLParametersText(e) ==
    Concat([k \in 1..Len(El(e).parameterTypes) |->
        (IF k > 1 THEN <<Text(", ")>> ELSE <<>>)
        \o <<Text(IDLBuilder_typeToString(El(e).parameterTypes[k])),
             Text(" "), Text(ParameterNames[k])>>])

\* Lines 368-374: the parameter list of a Function in TypeScript.
TSDParametersText(e) ==
    Concat([k \in 1..Len(El(e).parameterTypes) |->
        (IF k > 1 THEN <<Text(", ")>> ELSE <<>>)
        \o <<Text(ParameterNames[k]), Text(": "),
             Text(TSDBuilder_typeToString(El(e).parameterTypes[k]))>>])

\* Lines 190-205: the declaration line of a Function in WebIDL.
IDLFunctionText(e, level) ==
    <<Indent(level), Text(IDLBuilder_typeToString(El(e).returnType)),
      Text(" "), SimpleName(e), Text("(")>>
    \o IDLParametersText(e)
    \o <<Text(");\n")>>

\* Lines 361-377: the declaration line of a Function in TypeScript.
TSDFunctionText(e, level) ==
    <<Indent(level), Text("function "), SimpleName(e), Text("(")>>
    \o TSDParametersText(e)
    \o <<Text("): "), Text(TSDBuilder_typeToString(El(e).returnType)),
         Text(";\n")>>

\* Lines 224-230: a Class or Interface in WebIDL, with its empty body.
IDLClassText(e, level) ==
    <<Indent(level), Text("interface "), SimpleName(e), Text(" {\n"),
      Indent(level), Text("}\n")>>

\* Lines 385-411: a Class or Interface in TypeScript, with its empty body.
TSDClassText(e, level) ==
    <<Indent(level)>>
    \o (IF El(e).kind = "INTERFACE" THEN <<Text("interface ")>>
        ELSE (IF El(e).abstract THEN <<Text("abstract ")>> ELSE <<>>)
             \o <<Text("class ")>>)
    \o <<SimpleName(e)>>
    \o (IF El(e).base # 0
        THEN <<Text(" extends "), SimpleName(El(e).base)>> ELSE <<>>)
    \o <<Text(" {\n"), Indent(level), Text("}\n")>>

\* The opening line of a block: indent(sb, this.indentLevel++) and the rest.
OpenBlockText(keyword, e, level) ==
    <<Indent(level), Text(keyword), SimpleName(e), Text(" {\n")>>

\* indent(sb, --this.indentLevel); sb.push("}\n");
CloseBlockText(level) == <<Indent(level - 1), Text("}\n")>>

----------------------------------------------------------------------------
(* The call stack.  A frame [op, e, i, entry, skip]: the method (or the    *)
(* loop, or the closing lines of a block) still to run, the element it is  *)
(* about, the next index of its loop, the indentLevel at the entry of the  *)
(* visit callback it belongs to, and whether its loop skips EnumValues.    *)

Top == stack[Len(stack)]

Pop == SubSeq(stack, 1, Len(stack) - 1)

Frame(op, e, entry) ==
    [op |-> op, e |-> e, i |-> 1, entry |-> entry, skip |-> FALSE]

Call(fn, e) == [fn |-> fn, e |-> e]

Running(op) == status = "running" /\ Len(stack) > 0 /\ Top.op = op

\* element.members, as the sequence of its values in insertion order
\* (<<>> when members is null).
Members(e) == El(e).members

\* Lines 157 and 335: the keys of element.members, in insertion order.
MemberKeys(e) == El(e).keys

\* A test of members that is true of an empty mapping too.
HasMembers_IgnoringSize(e) == El(e).hasMembers

\* members && members.size
HasMembers(e) == El(e).hasMembers /\ Len(Members(e)) > 0

\* A walk that goes through the root exports from the last to the first.
WalkElement_Reversed(i) == program.exports[Len(program.exports) + 1 - i]

\* Line 44: the i-th element of moduleLevelExports.values().
WalkElement(i) == program.exports[i]

\* A dispatcher with a case that hands a Function to visitFunction.
VisitElementTarget_Function(e) ==
    CASE El(e).kind = "GLOBAL" ->
            IF El(e).compiled THEN "visitGlobal" ELSE "break"
      [] El(e).kind = "ENUM" ->
            IF El(e).compiled THEN "visitEnum" ELSE "break"
      [] El(e).kind = "FUNCTION_PROTOTYPE" -> "instances"
      [] El(e).kind = "FUNCTION" ->
            IF El(e).compiled THEN "visitFunction" ELSE "break"
      [] El(e).kind = "CLASS_PROTOTYPE" -> "instances"
      [] El(e).kind = "NAMESPACE" ->
            IF El(e).compiled THEN "visitNamespace" ELSE "break"
      [] OTHER -> AssertFailed

\* Lines 49-90: what visitElement does with an element, by its kind.
VisitElementTarget(e) ==
    CASE El(e).kind = "GLOBAL" ->
            IF El(e).compiled THEN "visitGlobal" ELSE "break"
      [] El(e).kind = "ENUM" ->
            IF El(e).compiled THEN "visitEnum" ELSE "break"
      [] El(e).kind = "FUNCTION_PROTOTYPE" -> "instances"
      [] El(e).kind = "CLASS_PROTOTYPE" -> "instances"
      [] El(e).kind = "NAMESPACE" ->
            IF El(e).compiled THEN "visitNamespace" ELSE "break"
      [] OTHER -> AssertFailed

\* A loop over a prototype's instances that visits every instance.
VisitsInstance_Always(inst) == TRUE

\* Lines 65 and 73: whether the loop over a prototype's instances visits one.
VisitsInstance(inst) == El(inst).compiled

\* this.seen.has(element)
Seen(e) == e \in seen

\* Emits the fragments of a callback: all of them and then `after`, or those
\* before a failed assertion, which ends the build.
Emit(frags, after) ==
    IF HasAssert(frags)
    THEN /\ sb' = sb \o BeforeAssert(frags)
         /\ status' = "fatal"
         /\ UNCHANGED <<stack, indentLevel, calls>>
    ELSE /\ sb' = sb \o frags
         /\ after
         /\ UNCHANGED status

Return == stack' = Pop /\ UNCHANGED <<indentLevel, calls>>

\* Lines 280-283: IDLBuilder.build up to its call of walk.
IDLBuilder_build ==
    /\ status = "new" /\ builder = "IDL"
    /\ sb' = sb \o <<Text("interface ASModule {\n")>>
    /\ indentLevel' = indentLevel + 1
    /\ stack' = <<Frame("build", 0, indentLevel), Frame("walk", 0, indentLevel + 1)>>
    /\ status' = "running"
    /\ calls' = calls \o <<Call("build", 0), Call("walk", 0)>>
    /\ UNCHANGED <<program, builder, seen>>

TSDPrologue ==
    <<Text("declare module ASModule {\n"),
      Text("  type i8 = number;\n"), Text("  type i16 = number;\n"),
      Text("  type i32 = number;\n"), Text("  type u8 = number;\n"),
      Text("  type u16 = number;\n"), Text("  type u32 = number;\n"),
      Text("  type f32 = number;\n"), Text("  type f64 = number;\n"),
      Text("  type bool = any;\n")>>

\* Lines 459-472: TSDBuilder.build up to its call of walk.
TSDBuilder_build ==
    /\ status = "new" /\ builder = "TSD"
    /\ sb' = sb \o TSDPrologue
    /\ indentLevel' = indentLevel + 1
    /\ stack' = <<Frame("build", 0, indentLevel), Frame("walk", 0, indentLevel + 1)>>
    /\ status' = "running"
    /\ calls' = calls \o <<Call("build", 0), Call("walk", 0)>>
    /\ UNCHANGED <<program, builder, seen>>

\* Lines 285-287 and 473-475: build after walk has returned.
build_return ==
    /\ Running("build")
    /\ indentLevel' = indentLevel - 1
    /\ sb' = sb \o <<Text("}\n")>>
    /\ stack' = Pop
    /\ status' = "done"
    /\ UNCHANGED <<program, builder, seen, calls>>

\* Lines 43-47: one turn of the loop of walk, or its return.
walk ==
    /\ Running("walk")
    /\ IF Top.i <= Len(program.exports)
       THEN LET element == WalkElement(Top.i) IN
            /\ stack' = Pop \o <<[Top EXCEPT !.i = @ + 1],
                                 Frame("visitElement", element, indentLevel)>>
            /\ calls' = Append(calls, Call("visitElement", element))
       ELSE /\ stack' = Pop
            /\ UNCHANGED calls
    /\ UNCHANGED <<program, builder, sb, seen, indentLevel, status>>

\* Lines 49-90: the dispatcher.
visitElement ==
    /\ Running("visitElement")
    /\ LET e == Top.e
           target == VisitElementTarget(e)
       IN  CASE target = AssertFailed ->
                  /\ status' = "fatal"
                  /\ UNCHANGED <<stack, calls>>
             [] target = "break" ->
                  /\ stack' = Pop
                  /\ UNCHANGED <<status, calls>>
             [] target = "instances" ->
                  /\ stack' = Pop \o <<Frame("instances", e, indentLevel)>>
                  /\ UNCHANGED <<status, calls>>
             [] OTHER ->
                  /\ stack' = Pop \o <<Frame(target, e, indentLevel)>>
                  /\ calls' = Append(calls, Call(target, e))
                  /\ UNCHANGED status
    /\ UNCHANGED <<program, builder, sb, seen, indentLevel>>

\* Lines 64-68 and 72-76: one turn of the loop over a prototype's instances.
visitElement_instances ==
    /\ Running("instances")
    /\ LET proto == Top.e
           callback == IF El(proto).kind = "FUNCTION_PROTOTYPE"
                       THEN "visitFunction" ELSE "visitClass"
       IN  IF Top.i <= Len(El(proto).instances)
           THEN LET instance == El(proto).instances[Top.i] IN
                IF VisitsInstance(instance)
                THEN /\ stack' = Pop \o <<[Top EXCEPT !.i = @ + 1],
                                          Frame(callback, instance, indentLevel)>>
                     /\ calls' = Append(calls, Call(callback, instance))
                ELSE /\ stack' = Pop \o <<[Top EXCEPT !.i = @ + 1]>>
                     /\ UNCHANGED calls
           ELSE /\ stack' = Pop
                /\ UNCHANGED calls
    /\ UNCHANGED <<program, builder, sb, seen, indentLevel, status>>

\* Lines 175-179, 212-214, 247-249 and 426-428: one turn of a loop over
\* members.values() that hands each member to visitElement.
visitMembers ==
    /\ Running("members")
    /\ IF Top.i <= Len(Members(Top.e))
       THEN LET member == Members(Top.e)[Top.i] IN
            IF Top.skip /\ El(member).kind = "ENUMVALUE"
            THEN /\ stack' = Pop \o <<[Top EXCEPT !.i = @ + 1]>>
                 /\ UNCHANGED calls
            ELSE /\ stack' = Pop \o <<[Top EXCEPT !.i = @ + 1],
                                      Frame("visitElement", member, indentLevel)>>
                 /\ calls' = Append(calls, Call("visitElement", member))
       ELSE /\ stack' = Pop
            /\ UNCHANGED calls
    /\ UNCHANGED <<program, builder, sb, seen, indentLevel, status>>

\* Lines 181-182, 215-216, 251-252, 352-353 and 429-430: the closing lines
\* of a block, which end the callback that opened it.
closeBlock ==
    /\ Running("close")
    /\ sb' = sb \o CloseBlockText(indentLevel)
    /\ indentLevel' = indentLevel - 1
    /\ stack' = Pop
    /\ UNCHANGED <<program, builder, seen, status, calls>>

----------------------------------------------------------------------------
(* The WebIDL builder's callbacks.                                         *)

\* Lines 117-145.
IDLBuilder_visitGlobal ==
    /\ Running("visitGlobal") /\ builder = "IDL"
    /\ LET e == Top.e IN
       IF Seen(e)
       THEN Return /\ UNCHANGED <<sb, seen, status>>
       ELSE /\ seen' = seen \cup {e}
            /\ Emit(IDLGlobalText(e, indentLevel), Return)
    /\ UNCHANGED <<program, builder>>

\* Lines 147-174: visitEnum up to its loop over the non-value members.
IDLBuilder_visitEnum ==
    /\ Running("visitEnum") /\ builder = "IDL"
    /\ LET e == Top.e IN
       IF Seen(e)
       THEN Return /\ UNCHANGED <<sb, seen, status>>
       ELSE /\ seen' = seen \cup {e}
            /\ sb' = sb \o OpenBlockText("interface ", e, indentLevel)
                        \o Concat([k \in 1..Len(Members(e)) |->
                               IDLEnumValueText(MemberKeys(e)[k], Members(e)[k],
                                                indentLevel + 1)])
            /\ indentLevel' = indentLevel + 1
            /\ stack' = Pop \o <<Frame("close", e, Top.entry),
                                 [Frame("members", e, Top.entry) EXCEPT !.skip = TRUE]>>
            /\ UNCHANGED <<status, calls>>
    /\ UNCHANGED <<program, builder>>

\* Lines 185-214: visitFunction up to its loop over the members.
IDLBuilder_visitFunction ==
    /\ Running("visitFunction") /\ builder = "IDL"
    /\ LET e == Top.e IN
       IF Seen(e)
       THEN Return /\ UNCHANGED <<sb, seen, status>>
       ELSE /\ seen' = seen \cup {e}
            /\ IF HasMembers(e)
               THEN Emit(IDLFunctionText(e, indentLevel)
                           \o OpenBlockText("interface ", e, indentLevel),
                         /\ stack' = Pop \o <<Frame("close", e, Top.entry),
                                              Frame("members", e, Top.entry)>>
                         /\ UNCHANGED <<indentLevel, calls>>)
               ELSE Emit(IDLFunctionText(e, indentLevel), Return)
    /\ UNCHANGED <<program, builder>>

\* Lines 220-231.
IDLBuilder_visitClass ==
    /\ Running("visitClass") /\ builder = "IDL"
    /\ LET e == Top.e IN
       IF Seen(e)
       THEN Return /\ UNCHANGED <<sb, seen, status>>
       ELSE /\ seen' = seen \cup {e}
            /\ Emit(IDLClassText(e, indentLevel), Return)
    /\ UNCHANGED <<program, builder>>

\* Interface elements, the arguments of visitInterface.
Interfaces == {x \in 1..Len(Elements) : El(x).kind = "INTERFACE"}

\* Lines 233-235: visitInterface, called on a fresh builder (the dispatcher
\* has no case that calls it), up to its call of visitClass.
IDLBuilder_visitInterface ==
    /\ status = "new" /\ builder = "IDL"
    /\ \E element \in Interfaces :
          /\ stack' = <<Frame("visitInterface", element, indentLevel),
                        Frame("visitClass", element, indentLevel)>>
          /\ calls' = calls \o <<Call("visitInterface", element),
                                  Call("visitClass", element)>>
    /\ status' = "running"
    /\ UNCHANGED <<program, builder, sb, seen, indentLevel>>

\* Lines 235 and 416: visitInterface after visitClass has returned.
visitInterface_return ==
    /\ Running("visitInterface")
    /\ stack' = Pop
    /\ status' = "done"
    /\ UNCHANGED <<program, builder, sb, seen, indentLevel, calls>>

\* Lines 237-250: visitNamespace up to its loop over the members.
IDLBuilder_visitNamespace ==
    /\ Running("visitNamespace") /\ builder = "IDL"
    /\ LET e == Top.e IN
       IF Seen(e)
       THEN Return /\ UNCHANGED <<sb, seen, status>>
       ELSE /\ seen' = seen \cup {e}
            /\ sb' = sb \o OpenBlockText("interface ", e, indentLevel)
            /\ indentLevel' = indentLevel + 1
            /\ stack' = Pop \o <<Frame("close", e, Top.entry),
                                 Frame("members", e, Top.entry)>>
            /\ UNCHANGED <<status, calls>>
    /\ UNCHANGED <<program, builder>>

----------------------------------------------------------------------------
(* The TypeScript builder's callbacks.                                     *)

\* this.visitNamespace(element) as the last statement of a callback.
TailCallVisitNamespace(e) ==
    /\ stack' = Pop \o <<Frame("visitNamespace", e, Top.entry)>>
    /\ calls' = Append(calls, Call("visitNamespace", e))
    /\ UNCHANGED indentLevel

\* Lines 308-322.
TSDBuilder_visitGlobal ==
    /\ Running("visitGlobal") /\ builder = "TSD"
    /\ LET e == Top.e IN
       IF Seen(e)
       THEN Return /\ UNCHANGED <<sb, seen, status>>
       ELSE /\ seen' = seen \cup {e}
            /\ Emit(TSDGlobalText(e, indentLevel), TailCallVisitNamespace(e))
    /\ UNCHANGED <<program, builder>>

\* Lines 335-347: the EnumValue members of an Enum.
EnumValues(e) ==
    {Members(e)[k] : k \in {j \in 1..Len(Members(e)) :
                              El(Members(e)[j]).kind = "ENUMVALUE"}}

\* Lines 334, 345 and 348: numMembers after the loop, the number of members
\* that are no EnumValue.
NumMembersLeft(e) ==
    Cardinality({k \in 1..Len(Members(e)) :
                    El(Members(e)[k]).kind # "ENUMVALUE"})

\* Lines 324-351: visitEnum up to its closing lines.
TSDBuilder_visitEnum ==
    /\ Running("visitEnum") /\ builder = "TSD"
    /\ LET e == Top.e IN
       IF Seen(e)
       THEN Return /\ UNCHANGED <<sb, seen, status>>
       ELSE /\ seen' = seen \cup {e} \cup EnumValues(e)
            /\ sb' = sb \o OpenBlockText("enum ", e, indentLevel)
                        \o Concat([k \in 1..Len(Members(e)) |->
                               TSDEnumValueText(MemberKeys(e)[k], Members(e)[k],
                                                indentLevel + 1)])
            /\ indentLevel' = indentLevel + 1
            /\ IF El(e).hasMembers /\ NumMembersLeft(e) # 0
               THEN /\ stack' = Pop \o <<Frame("close", e, Top.entry),
                                         Frame("visitNamespace", e, indentLevel + 1)>>
                    /\ calls' = Append(calls, Call("visitNamespace", e))
               ELSE /\ stack' = Pop \o <<Frame("close", e, Top.entry)>>
                    /\ UNCHANGED calls
            /\ UNCHANGED status
    /\ UNCHANGED <<program, builder>>

\* Lines 356-379.
TSDBuilder_visitFunction ==
    /\ Running("visitFunction") /\ builder = "TSD"
    /\ LET e == Top.e IN
       IF Seen(e)
       THEN Return /\ UNCHANGED <<sb, seen, status>>
       ELSE /\ seen' = seen \cup {e}
            /\ Emit(TSDFunctionText(e, indentLevel), TailCallVisitNamespace(e))
    /\ UNCHANGED <<program, builder>>

\* Lines 381-412.
TSDBuilder_visitClass ==
    /\ Running("visitClass") /\ builder = "TSD"
    /\ LET e == Top.e IN
       IF Seen(e)
       THEN Return /\ UNCHANGED <<sb, seen, status>>
       ELSE /\ seen' = seen \cup {e}
            /\ Emit(TSDClassText(e, indentLevel), Return)
    /\ UNCHANGED <<program, builder>>

\* Lines 414-416: visitInterface, called on a fresh builder, up to its call
\* of visitClass.
TSDBuilder_visitInterface ==
    /\ status = "new" /\ builder = "TSD"
    /\ \E element \in Interfaces :
          /\ stack' = <<Frame("visitInterface", element, indentLevel),
                        Frame("visitClass", element, indentLevel)>>
          /\ calls' = calls \o <<Call("visitInterface", element),
                                  Call("visitClass", element)>>
    /\ status' = "running"
    /\ UNCHANGED <<program, builder, sb, seen, indentLevel>>

\* Lines 418-428: visitNamespace up to its loop over the members.
TSDBuilder_visitNamespace ==
    /\ Running("visitNamespace") /\ builder = "TSD"
    /\ LET e == Top.e IN
       IF HasMembers(e)
       THEN /\ sb' = sb \o OpenBlockText("namespace ", e, indentLevel)
            /\ indentLevel' = indentLevel + 1
            /\ stack' = Pop \o <<Frame("close", e, Top.entry),
                                 Frame("members", e, Top.entry)>>
            /\ UNCHANGED calls
       ELSE Return /\ UNCHANGED sb
    /\ UNCHANGED <<program, builder, seen, status>>

----------------------------------------------------------------------------
(* The export graphs explored.  A graph is written as a forest of terms    *)
(* [el, kids] (an element and its members, or a prototype and its          *)
(* instances) and flattened into the table of elements, an element's       *)
(* identity being its index; an element reachable by two paths is then     *)
(* added by a second reference to the same index.                          *)

Names == <<"A", "B", "C", "D", "E", "F", "G", "H", "I", "J">>

Element(kind) ==
    [kind |-> kind, name |-> "", compiled |-> TRUE, inlined |-> FALSE,
     abstract |-> FALSE, type |-> "I32", constantValueKind |-> "NONE",
     constantValue |-> 0, hasMembers |-> FALSE, members |-> <<>>,
     keys |-> <<>>,
     instances |-> <<>>, base |-> 0, parameterTypes |-> <<>>,
     returnType |-> "VOID"]

Leaf(el) == [el |-> el, kids |-> <<>>]

Node(el, kids) == [el |-> el, kids |-> kids]

IsPrototype(el) == el.kind \in {"FUNCTION_PROTOTYPE", "CLASS_PROTOTYPE"}

RECURSIVE TreeSize(_), ForestSize(_)
TreeSize(t) == 1 + ForestSize(t.kids)

ForestSize(ts) ==
    IF ts = <<>> THEN 0 ELSE TreeSize(Head(ts)) + ForestSize(Tail(ts))

\* The indices of the trees of a forest whose first tree gets index first.
ForestIds(ts, first) ==
    [k \in 1..Len(ts) |-> first + ForestSize(SubSeq(ts, 1, k - 1))]

RECURSIVE TreeElements(_, _, _), ForestElements(_, _, _)
TreeElements(t, id, name) ==
    LET ids == ForestIds(t.kids, id + 1)
        me == [t.el EXCEPT
                 !.name = name,
                 !.members = IF IsPrototype(t.el) THEN <<>> ELSE ids,
                 !.instances = IF IsPrototype(t.el) THEN ids ELSE <<>>,
                 !.hasMembers = IF IsPrototype(t.el) THEN @
                                ELSE @ \/ Len(ids) > 0]
    IN  <<me>> \o ForestElements(t.kids, id + 1,
                                 IF IsPrototype(t.el) THEN name ELSE "")

\* An instance has the simpleName of its prototype; any other element has
\* the name of its index, unless the term gives it one.
ForestElements(ts, id, name) ==
    IF ts = <<>> THEN <<>>
    ELSE LET given == Head(ts).el.name
             own == IF name # "" THEN name
                    ELSE IF given # "" THEN given ELSE Names[id]
         IN  TreeElements(Head(ts), id, own)
             \o ForestElements(Tail(ts), id + TreeSize(Head(ts)), name)

\* Every member is held under its simpleName as the key.
KeyedBySimpleName(elements) ==
    [i \in 1..Len(elements) |->
        [elements[i] EXCEPT
           !.keys = [k \in 1..Len(elements[i].members) |->
                       elements[elements[i].members[k]].name]]]

Program(forest, isWasm64) ==
    [exports |-> ForestIds(forest, 1),
     elements |-> KeyedBySimpleName(ForestElements(forest, 1, "")),
     isWasm64 |-> isWasm64]

SeqsUpTo(S, n) == UNION {[1..k -> S] : k \in 0..n}

\* A Global of type i32; an Inlined one is the integer constant 7.
GlobalEl(compiled, inlined) ==
    [Element("GLOBAL") EXCEPT
       !.compiled = compiled, !.inlined = inlined,
       !.constantValueKind = IF inlined THEN "INTEGER" ELSE "NONE",
       !.constantValue = IF inlined THEN 7 ELSE 0]

Flagged(kind, compiled) == [Element(kind) EXCEPT !.compiled = compiled]

EnumValueEl(compiled, inlined) ==
    [Element("ENUMVALUE") EXCEPT
       !.compiled = compiled, !.inlined = inlined, !.constantValue = 1]

\* Elements without members or instances, as root exports.
RootLeaves ==
    {Leaf(GlobalEl(TRUE, FALSE)), Leaf(GlobalEl(TRUE, TRUE)),
     Leaf(GlobalEl(FALSE, FALSE)), Leaf(Flagged("NAMESPACE", TRUE)),
     Leaf(Flagged("ENUM", TRUE)), Leaf(Element("FUNCTION_PROTOTYPE")),
     Leaf(Element("FUNCTION"))}

\* Every kind of element without members or instances.
AllLeaves ==
    RootLeaves
    \cup {Leaf(GlobalEl(FALSE, TRUE))}
    \cup {Leaf(Flagged(k, FALSE)) : k \in {"NAMESPACE", "ENUM"}}
    \cup {Leaf([Element("NAMESPACE") EXCEPT !.hasMembers = TRUE])}
    \cup {Leaf(EnumValueEl(c, i)) : c \in BOOLEAN, i \in BOOLEAN}
    \cup {Leaf(Element(k)) : k \in {"CLASS_PROTOTYPE", "CLASS", "INTERFACE"}}

\* Elements without members or instances, as the members of one container.
MemberLeaves ==
    {Leaf(GlobalEl(TRUE, FALSE)), Leaf(GlobalEl(FALSE, FALSE)),
     Leaf(EnumValueEl(TRUE, TRUE)), Leaf(EnumValueEl(FALSE, FALSE)),
     Leaf(Flagged("NAMESPACE", TRUE))}

\* An element with members: a Namespace, an Enum, a Global, or a Function
\* as the one instance of its prototype.
ContainerKinds == {"NAMESPACE", "ENUM", "GLOBAL", "FUNCTION"}

Container(kind, compiled, kids) ==
    IF kind = "FUNCTION"
    THEN Node(Element("FUNCTION_PROTOTYPE"),
              <<Node([Flagged("FUNCTION", compiled) EXCEPT !.hasMembers = TRUE],
                     kids)>>)
    ELSE Node([Flagged(kind, compiled) EXCEPT !.hasMembers = TRUE], kids)

ConstantValueKinds == {"NONE", "INTEGER", "FLOAT"}

ConstantValues == {0, 7, -12}

ParameterTypes == {"I32", "F64"}

FunctionEl(compiled, parameterTypes, returnType) ==
    [Element("FUNCTION") EXCEPT
       !.compiled = compiled, !.parameterTypes = parameterTypes,
       !.returnType = returnType]

\* The instances of a FunctionPrototype: one that is not compiled, and
\* compiled ones with no, one and two parameters.
FunctionInstances ==
    {Leaf(FunctionEl(FALSE, <<>>, "VOID"))}
    \cup {Leaf(FunctionEl(TRUE, ps, "ISIZE")) :
            ps \in {<<>>, <<"I32">>, <<"F64", "I32">>}}

\* The instances of a ClassPrototype; base = -1 stands for the class Base.
ClassInstances ==
    {Leaf(Flagged("CLASS", FALSE))}
    \cup {Leaf([Element(k) EXCEPT !.abstract = a, !.base = b]) :
            k \in {"CLASS", "INTERFACE"}, a \in BOOLEAN, b \in {0, -1}}

\* A ClassPrototype with its instances, each with the class Base as its base
\* or with none; Base is compiled or not, and its own prototype is exported
\* before, after, or not at all.
ClassProgram(insts, baseCompiled, ex) ==
    LET p == Program(<<Node(Element("CLASS_PROTOTYPE"), insts),
                       Node([Element("CLASS_PROTOTYPE") EXCEPT !.name = "Base"],
                            <<Leaf(Flagged("CLASS", baseCompiled))>>)>>, FALSE)
        n == Len(p.elements)
    IN  [p EXCEPT
           !.elements = [k \in 1..n |->
                           IF p.elements[k].base = -1
                           THEN [p.elements[k] EXCEPT !.base = n]
                           ELSE p.elements[k]],
           !.exports = CASE ex = "none" -> <<1>>
                         [] ex = "after" -> <<1, n - 1>>
                         [] OTHER -> <<n - 1, 1>>]

\* Small graphs to which a second path to one element is added.
SharedBaseForests ==
    {<<Container(k, c, <<x>>)>> :
        k \in ContainerKinds, c \in BOOLEAN, x \in AllLeaves}
    \cup {<<Container(k1, TRUE, <<Container(k2, TRUE, <<Leaf(GlobalEl(TRUE, FALSE))>>)>>)>> :
            k1 \in ContainerKinds, k2 \in ContainerKinds}
    \cup {<<Node(Element("CLASS_PROTOTYPE"), <<Leaf(Flagged("CLASS", c))>>)>> :
            c \in BOOLEAN}
    \cup {<<Container(k, TRUE, <<x>>), Leaf(GlobalEl(TRUE, FALSE))>> :
            k \in ContainerKinds, x \in MemberLeaves}

\* Element r exported (once more) at the root, before or after the rest.
ExportedTwice(p, r, front) ==
    [p EXCEPT !.exports = IF front THEN <<r>> \o @ ELSE @ \o <<r>>]

\* The one member of container c held twice, under two keys: its
\* simpleName and that name with the suffix _2.
MemberTwice(p, c) ==
    [p EXCEPT !.elements[c].members = @ \o @,
              !.elements[c].keys = @ \o <<@[1] \o "_2">>]

\* The one member of container c held under a key that is not its
\* simpleName.
MemberRenamed(p, c) == [p EXCEPT !.elements[c].keys = <<"KEY">>]

----------------------------------------------------------------------------
(* The initial states: a fresh builder for one program.  The addressing    *)
(* width is read for the pointer-sized type kinds alone: both widths are   *)
(* explored for the graphs whose types vary.                               *)

\* Up to MaxRoots root exports without members, or any one of them.
InitFlat ==
    \/ \E n \in 0..MaxRoots : \E f \in [1..n -> RootLeaves] :
          program = Program(f, FALSE)
    \/ \E x \in AllLeaves : program = Program(<<x>>, FALSE)

\* One root export with up to MaxMembers members, or with any one member.
InitContainer ==
    \/ \E k \in ContainerKinds, n \in 0..MaxMembers :
          \E kids \in [1..n -> MemberLeaves] :
             program = Program(<<Container(k, TRUE, kids)>>, FALSE)
    \/ \E k \in ContainerKinds, c \in BOOLEAN, x \in AllLeaves :
          program = Program(<<Container(k, c, <<x>>)>>, FALSE)

\* A container in a container, followed by a Global.
InitNested ==
    \E k1 \in ContainerKinds, k2 \in ContainerKinds, x \in AllLeaves :
       program = Program(<<Container(k1, TRUE,
                              <<Container(k2, TRUE, <<x>>),
                                Leaf(GlobalEl(TRUE, FALSE))>>)>>, FALSE)

\* One root Global X of every type kind, flag and constant.
InitGlobal ==
    \E t \in TypeKinds, c \in BOOLEAN, i \in BOOLEAN,
       ck \in ConstantValueKinds, v \in ConstantValues, w \in BOOLEAN :
       program = Program(<<Leaf([Element("GLOBAL") EXCEPT
                                   !.name = "X", !.type = t, !.compiled = c,
                                   !.inlined = i, !.constantValueKind = ck,
                                   !.constantValue = v])>>, w)

\* A FunctionPrototype max with up to MaxInstances instances.
InitFunction ==
    \E c \in BOOLEAN, n \in 0..MaxInstances, w \in BOOLEAN :
       \E insts \in [1..n -> FunctionInstances] :
          program = Program(<<Node([Flagged("FUNCTION_PROTOTYPE", c)
                                      EXCEPT !.name = "max"], insts)>>, w)

\* One function of every return type kind and of every list of up to
\* MaxParams parameters, some with a parameter of a type kind that
\* typeToString does not support.
InitSignature ==
    \E ps \in {<<"USIZE">>, <<"OTHER">>, <<"I32", "OTHER">>}
               \cup SeqsUpTo(ParameterTypes, MaxParams),
       r \in TypeKinds, w \in BOOLEAN :
       program = Program(<<Node(Element("FUNCTION_PROTOTYPE"),
                                <<Leaf(FunctionEl(TRUE, ps, r))>>)>>, w)

\* A ClassPrototype with up to MaxInstances instances.
InitClass ==
    \E n \in 0..MaxInstances, bc \in BOOLEAN, ex \in {"none", "after", "before"} :
       \E insts \in [1..n -> ClassInstances] :
          program = ClassProgram(insts, bc, ex)

\* Graphs in which an element is reachable by two paths, or held under a
\* key that is not its simpleName.
InitShared ==
    \E f \in SharedBaseForests :
       LET p == Program(f, FALSE) IN
       \/ \E r \in 1..Len(p.elements), front \in BOOLEAN :
             program = ExportedTwice(p, r, front)
       \/ \E c \in {k \in 1..Len(p.elements) : Len(p.elements[k].members) = 1} :
             program = MemberTwice(p, c) \/ program = MemberRenamed(p, c)

\* Lines 108-110 and 299-301: a fresh builder.
Init ==
    /\ \/ InitFlat
       \/ InitContainer
       \/ InitNested
       \/ InitGlobal
       \/ InitFunction
       \/ InitSignature
       \/ InitClass
       \/ InitShared
    /\ builder \in {"IDL", "TSD"}
    /\ sb = <<>>
    /\ seen = {}
    /\ indentLevel = 0
    /\ stack = <<>>
    /\ status = "new"
    /\ calls = <<>>

Next ==
    \/ IDLBuilder_build
    \/ TSDBuilder_build
    \/ build_return
    \/ walk
    \/ visitElement
    \/ visitElement_instances
    \/ visitMembers
    \/ closeBlock
    \/ IDLBuilder_visitGlobal
    \/ IDLBuilder_visitEnum
    \/ IDLBuilder_visitFunction
    \/ IDLBuilder_visitClass
    \/ IDLBuilder_visitInterface
    \/ visitInterface_return
    \/ IDLBuilder_visitNamespace
    \/ TSDBuilder_visitGlobal
    \/ TSDBuilder_visitEnum
    \/ TSDBuilder_visitFunction
    \/ TSDBuilder_visitClass
    \/ TSDBuilder_visitInterface
    \/ TSDBuilder_visitNamespace

Spec == Init /\ [][Next]_vars

----------------------------------------------------------------------------
(* Reading the output.  The fragments of sb are grouped into lines: a line *)
(* starts at a call of indent and ends with a fragment that ends in "\n".  *)

LineEnds == {";\n", ",\n", " {\n", "}\n", ");\n"}

RECURSIVE LineEnd(_)
\* The index of the fragment ending the line of fragment i, 0 if the line
\* is not finished.
LineEnd(i) ==
    IF i > Len(sb) THEN 0
    ELSE IF sb[i].s \in LineEnds THEN i ELSE LineEnd(i + 1)

RECURSIVE LineStart(_)
LineStart(i) ==
    IF i < 1 THEN 0
    ELSE IF sb[i].s = "<indent>" THEN i ELSE LineStart(i - 1)

Strings(frags) == [k \in 1..Len(frags) |-> frags[k].s]

\* The strings of the finished line of fragment i.
LineOf(i) == Strings(SubSeq(sb, LineStart(i), LineEnd(i)))

NameIndices == {i \in 1..Len(sb) : sb[i].e # 0}

PrevString(i) == IF i > 1 THEN sb[i - 1].s ELSE ""

NextString(i) == IF i < Len(sb) THEN sb[i + 1].s ELSE ""

\* The declaration lines of Globals and of Functions.
GlobalDecls ==
    {i \in NameIndices : /\ El(sb[i].e).kind = "GLOBAL"
                         /\ PrevString(i) \notin {"namespace ", " extends "}}

FunctionDecls ==
    {i \in NameIndices : El(sb[i].e).kind = "FUNCTION" /\ NextString(i) = "("}

\* The type names of section 4.2 and 4.3 that do not depend on the
\* addressing width.
FixedTypeName(kind) ==
    IF builder = "IDL"
    THEN [I8 |-> "byte", I16 |-> "short", I32 |-> "long", I64 |-> "long long",
          U8 |-> "octet", U16 |-> "unsigned short", U32 |-> "unsigned long",
          U64 |-> "unsigned long long", BOOL |-> "boolean",
          F32 |-> "unrestricted float", F64 |-> "unrestricted double",
          VOID |-> "void"][kind]
    ELSE [I8 |-> "i8", I16 |-> "i16", I32 |-> "i32", I64 |-> "I64",
          U8 |-> "u8", U16 |-> "u16", U32 |-> "u32", U64 |-> "U64",
          BOOL |-> "bool", F32 |-> "f32", F64 |-> "f64",
          VOID |-> "void"][kind]

\* The name a supported type kind is to have: a pointer-sized kind has the
\* name of its 64-bit or 32-bit kind.
ExpectedTypeName(kind) ==
    CASE kind = "ISIZE" -> FixedTypeName(IF program.isWasm64 THEN "I64" ELSE "I32")
      [] kind = "USIZE" -> FixedTypeName(IF program.isWasm64 THEN "U64" ELSE "U32")
      [] OTHER -> FixedTypeName(kind)

\* The decimal literals of the constants of the explored graphs.
Decimal(v) ==
    CASE v = 0 -> "0" [] v = 1 -> "1" [] v = 7 -> "7" [] v = -12 -> "-12"

\* The type name in the finished declaration line of the Global or Function
\* named at i: of a Global its type, of a Function its return type.
DeclaredTypeName(i) ==
    IF builder = "IDL" THEN sb[i - 2].s ELSE sb[LineEnd(i) - 1].s

DeclaredTypeKind(i) ==
    IF El(sb[i].e).kind = "GLOBAL" THEN El(sb[i].e).type
    ELSE El(sb[i].e).returnType

\* Whether every type kind a callback on e hands to typeToString is supported.
TypesSupported(e) ==
    IF El(e).kind = "GLOBAL" THEN El(e).type \in SupportedTypeKinds
    ELSE /\ El(e).returnType \in SupportedTypeKinds
         /\ \A k \in 1..Len(El(e).parameterTypes) :
               El(e).parameterTypes[k] \in SupportedTypeKinds

----------------------------------------------------------------------------
(* C9: in both renderers' typeToString the pointer-sized kinds follow the  *)
(* addressing-width flag (ISIZE has the name of I64 and USIZE that of U64  *)
(* when isWasm64 is set, those of I32 and U32 otherwise), the names of the *)
(* other supported kinds do not depend on the flag, and every supported    *)
(* kind has a non-empty name and raises no fatal error.                    *)
C9_PointerSizedFollowWidth ==
    /\ \A i \in GlobalDecls \cup FunctionDecls :
          LineEnd(i) # 0 =>
             /\ DeclaredTypeKind(i) \in SupportedTypeKinds
             /\ DeclaredTypeName(i) # ""
             /\ DeclaredTypeName(i) = ExpectedTypeName(DeclaredTypeKind(i))
    /\ (status = "fatal" /\ Top.op \in {"visitGlobal", "visitFunction"}
        /\ TypesSupported(Top.e))
          => (builder = "IDL" /\ Top.op = "visitGlobal")

\* A 64-bit WebIDL build has rendered a Global of type isize as long long.
C9_Witness ==
    /\ status = "done" /\ builder = "IDL" /\ program.isWasm64
    /\ \E i \in GlobalDecls :
          El(sb[i].e).type = "ISIZE" /\ sb[i - 2].s = "long long"

----------------------------------------------------------------------------
(* C7: the declaration line of a Global.                                   *)
ExpectedGlobalLine(i) ==
    LET g == El(sb[i].e)
        const == IF g.inlined THEN <<"const ">> ELSE <<>>
    IN  IF builder = "IDL"
        THEN <<"<indent>">> \o const
             \o <<ExpectedTypeName(g.type), " ", g.name>>
             \o (IF g.inlined
                 THEN <<" = ", IF g.constantValueKind = "INTEGER"
                               THEN Decimal(g.constantValue)
                               ELSE sb[LineEnd(i) - 1].s>>
                 ELSE <<>>)
             \o <<";\n">>
        ELSE <<"<indent>">> \o const
             \o <<g.name, ": ", ExpectedTypeName(g.type), ";\n">>

(* C7: for a compiled Global the WebIDL renderer emits " = <literal>" iff  *)
(* the Global is Inlined (an Integer constant as signed decimal) and       *)
(* prefixes "const " iff it is Inlined; the TypeScript renderer prefixes   *)
(* "const " iff it is Inlined and never emits a literal.  An Inlined i32   *)
(* Global X = 7 is "const long X = 7;" and "const X: i32;", a non-Inlined  *)
(* one "long X;" and "X: i32;".                                            *)
C7_GlobalLine ==
    \A i \in GlobalDecls :
       LineEnd(i) # 0 =>
          /\ El(sb[i].e).compiled
          /\ LineOf(i) = ExpectedGlobalLine(i)
          /\ (El(sb[i].e).name = "X" /\ El(sb[i].e).type = "I32"
              /\ El(sb[i].e).constantValueKind = "INTEGER"
              /\ El(sb[i].e).constantValue = 7)
                => LineOf(i) =
                     IF builder = "IDL"
                     THEN IF El(sb[i].e).inlined
                          THEN <<"<indent>", "const ", "long", " ", "X", " = ", "7", ";\n">>
                          ELSE <<"<indent>", "long", " ", "X", ";\n">>
                     ELSE IF El(sb[i].e).inlined
                          THEN <<"<indent>", "const ", "X", ": ", "i32", ";\n">>
                          ELSE <<"<indent>", "X", ": ", "i32", ";\n">>

\* The WebIDL build of the Inlined i32 Global X = 7 has returned.
C7_Witness ==
    /\ status = "done" /\ builder = "IDL"
    /\ \E i \in GlobalDecls :
          /\ El(sb[i].e).inlined /\ El(sb[i].e).constantValue = 7
          /\ LineOf(i) = <<"<indent>", "const ", "long", " ", "X", " = ", "7", ";\n">>

----------------------------------------------------------------------------
(* C3: which calls end the build in a fatal assertion failure.             *)

\* The kinds the switch of visitElement has a case for.
DispatchedKinds ==
    {"GLOBAL", "ENUM", "FUNCTION_PROTOTYPE", "CLASS_PROTOTYPE", "NAMESPACE"}

\* The closed set of kinds of section 7.
Section7Kinds ==
    {"GLOBAL", "ENUM", "FUNCTION_PROTOTYPE", "FUNCTION", "CLASS_PROTOTYPE",
     "CLASS", "INTERFACE", "NAMESPACE"}

\* (1) an element of a kind outside `kinds` reaches visitElement.
KindFatal(c, kinds) == c.fn = "visitElement" /\ El(c.e).kind \notin kinds

\* (2) a Type of an unsupported kind reaches typeToString.
TypeFatal(c) ==
    c.fn \in {"visitGlobal", "visitFunction"} /\ ~TypesSupported(c.e)

\* (3) the WebIDL renderer visits an Inlined Global that has no constant.
ConstantFatal(c) ==
    /\ builder = "IDL" /\ c.fn = "visitGlobal"
    /\ El(c.e).inlined
    /\ El(c.e).constantValueKind \notin {"INTEGER", "FLOAT"}

LastCall == calls[Len(calls)]

TopIsCall(c) == Len(stack) > 0 /\ Top.op = c.fn /\ Top.e = c.e

(* C3 as stated: build() ends in a fatal assertion failure in exactly two  *)
(* situations, (1) an element of a kind outside {Global, Enum,             *)
(* FunctionPrototype/Function, ClassPrototype/Class, Interface, Namespace} *)
(* reaches visitElement, or (2) a Type of an unsupported kind reaches      *)
(* typeToString; an Interface, Function or Class reaching visitElement is  *)
(* not fatal and no property of a Global but its type kind is.             *)
C3_Original ==
    status = "fatal" =>
       KindFatal(LastCall, Section7Kinds) \/ TypeFatal(LastCall)

(* C3 as amended: build() ends in a fatal assertion failure in exactly     *)
(* three situations: (1) an element of a kind outside {Global, Enum,       *)
(* FunctionPrototype, ClassPrototype, Namespace} reaches visitElement,     *)
(* (2) a Type of an unsupported kind reaches typeToString, (3) the WebIDL  *)
(* renderer visits an Inlined Global whose constant is neither Integer nor *)
(* Float.  A call in one of the three situations is the last call of the   *)
(* build and never returns; in no other case does the build stop before    *)
(* it has returned.                                                        *)
C3_FatalExactlyWhen ==
    /\ status = "fatal" =>
          \/ KindFatal(LastCall, DispatchedKinds)
          \/ TypeFatal(LastCall)
          \/ ConstantFatal(LastCall)
    /\ \A k \in 1..Len(calls) :
          (\/ KindFatal(calls[k], DispatchedKinds)
           \/ TypeFatal(calls[k])
           \/ ConstantFatal(calls[k]))
             => /\ k = Len(calls)
                /\ status \in {"running", "fatal"}
                /\ TopIsCall(calls[k])
    /\ status \in {"new", "running"} => ENABLED Next

\* A Function element has reached visitElement and the build has failed.
C3_Witness ==
    /\ status = "fatal"
    /\ LastCall.fn = "visitElement"
    /\ El(LastCall.e).kind = "FUNCTION"

----------------------------------------------------------------------------
(* The declarations of the output: the places where an element is named,   *)
(* but for the base of a class, the entries of an enum, and the block of   *)
(* members that follows the declaration line of a Function or Global.      *)

IsMemberBlock(i) ==
    \/ builder = "TSD" /\ PrevString(i) = "namespace "
                       /\ El(sb[i].e).kind # "NAMESPACE"
    \/ builder = "IDL" /\ PrevString(i) = "interface "
                       /\ El(sb[i].e).kind = "FUNCTION"

Declarations ==
    {i \in NameIndices : /\ PrevString(i) # " extends "
                         /\ El(sb[i].e).kind # "ENUMVALUE"
                         /\ ~IsMemberBlock(i)}

DeclarationsOf(e) == {i \in Declarations : sb[i].e = e}

ElementIds == 1..Len(Elements)

\* A run of build(), as opposed to a call of one visit method by itself.
BuildRun == calls # <<>> /\ calls[1].fn = "build"

(* C1 as stated: if an element does not have the Compiled flag set, the    *)
(* text of neither renderer has a fragment that names it, wherever it sits *)
(* in the graph: no declaration, no enum entry, no extends reference.      *)
C1_Original == BuildRun => \A i \in NameIndices : El(sb[i].e).compiled

(* C2 as stated: in one renderer run every element is emitted at most      *)
(* once, also when it is reachable by two enumeration paths, for every     *)
(* kind of element and in both renderers.                                  *)
C2_Original == \A e \in ElementIds : Cardinality(DeclarationsOf(e)) <= 1

----------------------------------------------------------------------------
(* C4: the enum blocks of the TypeScript renderer.                         *)

\* The entries the enum named at i is to have, as lines.
ExpectedEntries(e) ==
    Concat([k \in 1..Len(Members(e)) |->
        LET m == El(Members(e)[k]) IN
        IF m.kind = "ENUMVALUE"
        THEN <<"<indent>", El(e).keys[k]>>
             \o (IF m.inlined THEN <<" = ", Decimal(m.constantValue)>> ELSE <<>>)
             \o <<",\n">>
        ELSE <<>>])

EnumDecls == {i \in Declarations : PrevString(i) = "enum "}

\* A member the build can render: an EnumValue, or a Global or Namespace
\* without members of its own.
PlainMember(m) ==
    /\ El(m).kind \in {"ENUMVALUE", "GLOBAL", "NAMESPACE"}
    /\ TypesSupported(m)
    /\ Len(Members(m)) = 0

(* C4 as stated: for a compiled Enum the TypeScript renderer emits one     *)
(* entry per EnumValue member, in order, with " = <constantValue>" iff the *)
(* member is Inlined, and a nested namespace iff the enum has a member     *)
(* that is no EnumValue; for every mix of members build() completes.       *)
C4_Original ==
    builder = "TSD" =>
       /\ \A i \in EnumDecls :
             LET e == sb[i].e
                 n == Len(ExpectedEntries(e))
             IN  /\ Len(sb) >= i + 1 + n
                 /\ Strings(SubSeq(sb, i + 2, i + 1 + n)) = ExpectedEntries(e)
                 /\ (status = "done" /\ NumMembersLeft(e) > 0)
                       => /\ Len(sb) >= i + 4 + n
                          /\ sb[i + 3 + n].s = "namespace "
                          /\ sb[i + 4 + n].e = e
                 /\ (status = "done" /\ NumMembersLeft(e) = 0)
                       => sb[i + 3 + n].s = "}\n"
       /\ \A k \in 1..Len(calls) :
             (/\ calls[k].fn = "visitEnum"
              /\ \A j \in 1..Len(Members(calls[k].e)) :
                    PlainMember(Members(calls[k].e)[j]))
                => ~(/\ status = "fatal"
                     /\ Len(stack) >= 2
                     /\ stack[Len(stack) - 1].op = "members"
                     /\ stack[Len(stack) - 1].e = calls[k].e)

----------------------------------------------------------------------------
(* C10: the indentation of blocks.                                         *)

IsOpen(f) ==
    f.s \in {" {\n", "interface ASModule {\n", "declare module ASModule {\n"}

IsClose(f) == f.s = "}\n"

\* The number of blocks open before fragment i.
Depth(i) ==
    Cardinality({j \in 1..(i - 1) : IsOpen(sb[j])})
    - Cardinality({j \in 1..(i - 1) : IsClose(sb[j])})

(* C10 as stated: every visit callback returns with indentLevel equal to   *)
(* its value on entry, so indentLevel is never negative, it is 1 whenever  *)
(* walk dispatches a root export and 0 when build returns; the opening and *)
(* the closing line of every block are indented at the same depth and the  *)
(* lines of its members one level deeper, also in the block the WebIDL     *)
(* renderer emits for a Function that has members.                         *)
C10_Original ==
    /\ indentLevel >= 0
    /\ (Running("visitElement") /\ stack[Len(stack) - 1].op = "walk")
          => indentLevel = 1
    /\ status = "done" => indentLevel = 0
    /\ Running("close") => indentLevel - 1 = Top.entry
    /\ \A i \in 1..(Len(sb) - 1) :
          sb[i].s = "<indent>" =>
             sb[i].n = IF IsClose(sb[i + 1]) THEN Depth(i) - 1 ELSE Depth(i)

----------------------------------------------------------------------------
(* C6: prototypes and their instances.                                     *)

RECURSIVE Repeat(_, _)
Repeat(seq, k) == IF k = 0 THEN <<>> ELSE seq \o Repeat(seq, k - 1)

IsPrefix(s, t) == Len(s) <= Len(t) /\ s = SubSeq(t, 1, Len(s))

Range(seq) == {seq[k] : k \in 1..Len(seq)}

Prototypes == {p \in ElementIds : IsPrototype(El(p))}

\* The instances of p that have their Compiled flag set, in instance order.
CompiledInstances(p) ==
    LET Compiled(inst) == El(inst).compiled
    IN  SelectSeq(El(p).instances, Compiled)

\* How often p has reached the dispatcher.
Dispatches(p) ==
    Cardinality({k \in 1..Len(calls) : calls[k] = Call("visitElement", p)})

\* The callbacks made so far on the instances of p, in order.
InstanceCallbacks(p) ==
    LET OnInstance(c) == /\ c.fn \in {"visitFunction", "visitClass"}
                         /\ c.e \in Range(El(p).instances)
    IN  SelectSeq(calls, OnInstance)

\* The declaration line a Function is to have, from its own signature.
ExpectedFunctionLine(i) ==
    LET f == El(sb[i].e)
        ps == f.parameterTypes
        names == <<"a", "b", "c">>
    IN  IF builder = "IDL"
        THEN <<"<indent>", ExpectedTypeName(f.returnType), " ", f.name, "(">>
             \o Concat([k \in 1..Len(ps) |->
                          (IF k > 1 THEN <<", ">> ELSE <<>>)
                          \o <<ExpectedTypeName(ps[k]), " ", names[k]>>])
             \o <<");\n">>
        ELSE <<"<indent>", "function ", f.name, "(">>
             \o Concat([k \in 1..Len(ps) |->
                          (IF k > 1 THEN <<", ">> ELSE <<>>)
                          \o <<names[k], ": ", ExpectedTypeName(ps[k])>>])
             \o <<"): ", ExpectedTypeName(f.returnType), ";\n">>

(* C6: a FunctionPrototype or ClassPrototype that reaches the dispatcher   *)
(* is never rendered itself; visitFunction / visitClass is called once for *)
(* each of its instances whose own Compiled flag is set, in instance       *)
(* order, and for no other instance, whatever the prototype's flags are.   *)
(* When the build has returned, every compiled instance of a dispatched    *)
(* prototype has one declaration and no other instance has any, and each   *)
(* function declaration has its own instance's parameter and return types. *)
C6_InstancesOfPrototypes ==
    BuildRun =>
    /\ \A p \in Prototypes :
          LET fn == IF El(p).kind = "FUNCTION_PROTOTYPE"
                    THEN "visitFunction" ELSE "visitClass"
              all == Repeat(CompiledInstances(p), Dispatches(p))
              done == InstanceCallbacks(p)
          IN  /\ \A i \in NameIndices : sb[i].e # p
              /\ \A k \in 1..Len(calls) : calls[k].e = p => calls[k].fn = "visitElement"
              /\ \A k \in 1..Len(done) : done[k].fn = fn
              /\ IsPrefix([k \in 1..Len(done) |-> done[k].e], all)
              /\ status = "done" =>
                    /\ Len(done) = Len(all)
                    /\ \A inst \in Range(El(p).instances) :
                          Cardinality(DeclarationsOf(inst)) =
                             IF El(inst).compiled /\ Dispatches(p) > 0
                             THEN 1 ELSE 0
    /\ \A i \in FunctionDecls :
          LineEnd(i) # 0 => LineOf(i) = ExpectedFunctionLine(i)

\* The build of a prototype max that is not compiled itself has returned
\* with two declarations of max, one per compiled instance, of distinct
\* parameter types.
C6_Witness ==
    /\ status = "done"
    /\ \E p \in Prototypes :
          /\ El(p).name = "max" /\ ~El(p).compiled
          /\ \E i \in FunctionDecls, j \in FunctionDecls :
                /\ i < j
                /\ sb[i].e = El(p).instances[1]
                /\ sb[j].e = El(p).instances[2]
                /\ El(sb[i].e).parameterTypes # El(sb[j].e).parameterTypes
                /\ LineOf(i) # LineOf(j)

----------------------------------------------------------------------------
(* C8: the blocks of Namespaces.                                           *)

Namespaces == {e \in ElementIds : El(e).kind = "NAMESPACE"}

\* How often the callback fn has been called on e.
CallsOf(fn, e) == Cardinality({k \in 1..Len(calls) : calls[k] = Call(fn, e)})

RECURSIVE MatchingClose(_, _)
\* The index of the fragment that closes the block opened in the line of
\* fragment i, looking from j on; 0 if the block is still open.
MatchingClose(i, j) ==
    IF j > Len(sb) THEN 0
    ELSE IF IsClose(sb[j]) /\ Depth(j + 1) = Depth(i) THEN j
    ELSE MatchingClose(i, j + 1)

\* The members of a Namespace that have a declaration of their own once
\* they have been visited.
DeclaredMembers(e) ==
    {m \in Range(Members(e)) :
        /\ El(m).compiled
        /\ \/ El(m).kind \in {"GLOBAL", "ENUM"}
           \/ El(m).kind = "NAMESPACE" /\ (builder = "IDL" \/ Len(Members(m)) > 0)}

Min(S) == CHOOSE x \in S : \A y \in S : x <= y

(* C8: for a compiled Namespace with zero members (members absent or an    *)
(* empty mapping) the TypeScript renderer appends no text at all, while    *)
(* the WebIDL renderer appends an opening "interface <name> {" line and a  *)
(* closing "}" line with nothing between them.  For a compiled Namespace   *)
(* with at least one member both renderers emit an opening line, the       *)
(* recursively rendered members, and a closing line.                       *)
C8_NamespaceBlocks ==
    \A e \in Namespaces :
       /\ (builder = "TSD" /\ Len(Members(e)) = 0) =>
             \A i \in NameIndices : sb[i].e # e
       /\ \A i \in DeclarationsOf(e) :
             LET close == MatchingClose(i, i + 2) IN
             /\ El(e).compiled
             /\ LineOf(i) = <<"<indent>",
                              IF builder = "IDL" THEN "interface " ELSE "namespace ",
                              El(e).name, " {\n">>
             /\ (Len(Members(e)) = 0 /\ Len(sb) > i + 1) => close = i + 3
             /\ status = "done" => close # 0
             /\ close # 0 =>
                   /\ sb[close - 1].s = "<indent>"
                   /\ \A m \in DeclaredMembers(e) :
                         /\ DeclarationsOf(m) # {}
                         /\ Min(DeclarationsOf(m)) > i =>
                               Min(DeclarationsOf(m)) < close
       /\ status = "done" =>
             Cardinality(DeclarationsOf(e)) =
                IF builder = "IDL"
                THEN (IF CallsOf("visitNamespace", e) > 0 THEN 1 ELSE 0)
                ELSE (IF Len(Members(e)) > 0
                      THEN CallsOf("visitNamespace", e) ELSE 0)

\* Both builds of a compiled Namespace whose members mapping is empty have
\* returned: the WebIDL one with an empty block, the TypeScript one after a
\* call of visitNamespace that has left no text.
C8_Witness ==
    /\ status = "done"
    /\ \E e \in Namespaces :
          /\ El(e).compiled /\ El(e).hasMembers /\ Len(Members(e)) = 0
          /\ CallsOf("visitNamespace", e) > 0
          /\ builder = "IDL" => \E i \in DeclarationsOf(e) :
                                   MatchingClose(i, i + 2) = i + 3

----------------------------------------------------------------------------
(* C5: the order of the root exports.                                      *)

RootExports == Range(program.exports)

\* The first position of root export x in the root export mapping.
FirstPosition(x) ==
    Min({k \in 1..Len(program.exports) : program.exports[k] = x})

RECURSIVE Reachable(_)
\* The elements an enumeration that starts at e can come to.
Reachable(e) ==
    {e} \cup UNION {Reachable(c) : c \in Range(Members(e)) \cup Range(El(e).instances)}

\* The declarations of a root export: its own, or those of its instances.
DeclarationsOfExport(x) ==
    DeclarationsOf(x) \cup UNION {DeclarationsOf(c) : c \in Range(El(x).instances)}

\* Whether walk dispatches in the order of the mapping: the element that
\* walk has handed to visitElement is the one at the position walk is at.
WalkInOrder ==
    (Running("visitElement") /\ stack[Len(stack) - 1].op = "walk")
       => Top.e = program.exports[stack[Len(stack) - 1].i - 1]

\* Root exports x before y, both with a declaration in the output.
DeclaredInOrder(x, y) ==
    /\ x # y
    /\ FirstPosition(x) < FirstPosition(y)
    /\ DeclarationsOfExport(x) # {}
    /\ DeclarationsOfExport(y) # {}

\* Whether root export y can be reached from a root export before it.
ReachableBefore(y) ==
    \E k \in 1..(FirstPosition(y) - 1) : y \in Reachable(program.exports[k])

(* C5 as stated: walk() visits the root exports in the insertion order of  *)
(* the root export mapping, so for compiled root exports declared in order *)
(* [A, B, C] the declaration of A precedes that of B, which precedes that  *)
(* of C, in the output of both renderers.                                  *)
C5_Original ==
    /\ WalkInOrder
    /\ \A x \in RootExports, y \in RootExports :
          DeclaredInOrder(x, y) =>
             Min(DeclarationsOfExport(x)) < Min(DeclarationsOfExport(y))

(* C5 as amended: walk() visits the root exports in the insertion order of *)
(* the root export mapping, so for compiled root exports declared in order *)
(* [A, B, C] the first declaration of A precedes that of B, which precedes *)
(* that of C, in the output of both renderers, provided the later export   *)
(* is not also a member or instance, at any depth, of a root export before *)
(* it.                                                                     *)
C5_RootOrder ==
    /\ WalkInOrder
    /\ \A x \in RootExports, y \in RootExports :
          (DeclaredInOrder(x, y) /\ ~ReachableBefore(y)) =>
             Min(DeclarationsOfExport(x)) < Min(DeclarationsOfExport(y))

\* The build of three distinct root exports has returned with a declaration
\* of each, in the order of the mapping.
C5_Witness ==
    /\ status = "done"
    /\ Len(program.exports) = 3
    /\ \A a \in 1..3, b \in 1..3 :
          a < b =>
             /\ DeclaredInOrder(program.exports[a], program.exports[b])
             /\ ~ReachableBefore(program.exports[b])
             /\ Min(DeclarationsOfExport(program.exports[a]))
                   < Min(DeclarationsOfExport(program.exports[b]))

====
